---- MODULE Spec2Model ----
(***************************************************************************)
(* bdi_api.s4.exercise: the two request handlers download_data and         *)
(* prepare_data, the remote archive, the S3 bucket and the local file      *)
(* system they act on.  Strings are TLA+ strings: keys, file names and     *)
(* paths are built and taken apart as the Python code does it.             *)
(***************************************************************************)
EXTENDS Integers, Sequences, FiniteSets, TLC

(* ------------------------------ bounds -------------------------------- *)
\* seconds of the day the file name generator covers (the code: 24*60*60)
DaySeconds == 15
\* largest file_limit a caller passes
MaxLimit == 4
\* handler invocations of the sequential caller
MaxCalls == 1
\* keys one list_objects_v2 page holds (S3: 1000)
PageSize == 2

(* ------------------------- program constants -------------------------- *)
StepSeconds == 5
SecondsPerHour == 3600
SecondsPerMinute == 60

DAY == "20231101"
REMOTE_DATE_PATH == "2023/11/01"
S3_PREFIX == "raw/day=" \o DAY \o "/"

\* settings.source_url, settings.raw_dir and the bucket name of the tests
SOURCE_URL == "https://samples.adsbexchange.com/readsb-hist"
RAW_DIR == "/tmp/raw"
BUCKET == "test-bucket"
MISSING_BUCKET == "ValueError: Missing S3 bucket. Set env var BDI_S3_BUCKET."

Procs == {1, 2}

(* --------------------------- string helpers --------------------------- *)
CharAt(s, i) == SubSeq(s, i, i)

\* str.startswith / str.endswith
StartsWith(s, pre) == Len(s) >= Len(pre) /\ SubSeq(s, 1, Len(pre)) = pre
EndsWith(s, suf) == Len(s) >= Len(suf) /\ SubSeq(s, Len(s) - Len(suf) + 1, Len(s)) = suf

DigitChars == "0123456789"
Digit(d) == CharAt(DigitChars, d + 1)

\* f"{n:02d}" for 0 <= n < 100
TwoDigits(n) == Digit((n \div 10) % 10) \o Digit(n % 10)

\* f"{n}" for n >= 0
RECURSIVE Decimal(_)
Decimal(n) == IF n < 10 THEN Digit(n) ELSE Decimal(n \div 10) \o Digit(n % 10)

\* the characters of keys, in byte order (S3 lists keys in UTF-8 byte order)
Alphabet == "-./0123456789:=Z_abcdefghijklmnopqrstuvwxyz"
Rank(c) == CHOOSE i \in 1..Len(Alphabet) : CharAt(Alphabet, i) = c

RECURSIVE StrLess(_, _)
StrLess(a, b) ==
    IF Len(b) = 0 THEN FALSE
    ELSE IF Len(a) = 0 THEN TRUE
    ELSE IF Head(a) = Head(b) THEN StrLess(Tail(a), Tail(b))
    ELSE Rank(Head(a)) < Rank(Head(b))

RECURSIVE SortKeys(_)
SortKeys(S) ==
    IF S = {} THEN <<>>
    ELSE LET m == CHOOSE k \in S : \A o \in S \ {k} : StrLess(k, o)
         IN <<m>> \o SortKeys(S \ {m})

FirstN(seq, n) == SubSeq(seq, 1, IF Len(seq) < n THEN Len(seq) ELSE n)

(* ----------------------- the file name generator ---------------------- *)
\* one element of the list: the token of second sec
FormatToken(sec) ==
    LET hh == sec \div SecondsPerHour
        mm == (sec % SecondsPerHour) \div SecondsPerMinute
        ss == sec % SecondsPerMinute
    IN TwoDigits(hh) \o TwoDigits(mm) \o TwoDigits(ss) \o "Z.json.gz"

\* len(range(0, DaySeconds, 5))
NumFiles == (DaySeconds + StepSeconds - 1) \div StepSeconds

_generate_readsb_filenames_every_5s ==
    [i \in 1..NumFiles |-> FormatToken((i - 1) * StepSeconds)]

Filenames == _generate_readsb_filenames_every_5s

BaseUrl == SOURCE_URL \o "/" \o REMOTE_DATE_PATH \o "/"
UrlOf(filename) == BaseUrl \o filename
KeyOf(filename) == S3_PREFIX \o filename
\* the body the remote archive serves at a url
RemoteBody(url) == "gz:" \o url

(* ------------------------------ pathlib ------------------------------- *)
\* Path(base) / name: a name that starts with "/" replaces the base
JoinPath(base, name) == IF StartsWith(name, "/") THEN name ELSE base \o "/" \o name

LastSlash(path) ==
    CHOOSE i \in 1..Len(path) :
        CharAt(path, i) = "/" /\ \A j \in (i + 1)..Len(path) : CharAt(path, j) # "/"

\* Path.parent of an absolute path
Parent(path) == IF LastSlash(path) = 1 THEN "/" ELSE SubSeq(path, 1, LastSlash(path) - 1)

\* what mkdir(parents=True, exist_ok=True) makes sure exists
RECURSIVE WithParents(_)
WithParents(path) == IF path = "/" THEN {"/"} ELSE {path} \cup WithParents(Parent(path))

Within(path, dir) == path = dir \/ StartsWith(path, dir \o "/")

local_raw_dir == JoinPath(RAW_DIR, "day=" \o DAY)

\* key[len(S3_PREFIX):]
StripPrefix(key) == SubSeq(key, Len(S3_PREFIX) + 1, Len(key))
DestOf(key) == JoinPath(local_raw_dir, StripPrefix(key))

(* ------------------------------- state -------------------------------- *)
VARIABLES
    s3_bucket,   \* settings.s3_bucket
    archive,     \* the file names the remote archive holds (HEAD answers 200)
    storage,     \* the bucket: key -> body
    fs_dirs,     \* the local directories that exist
    fs_files,    \* the local files: path -> body
    pc,          \* where each invocation stands
    handler,     \* the handler each process runs
    file_limit,  \* download_data: the parameter
    uploaded,    \* download_data: the counter
    idx,         \* download_data: position of the for loop in the list
    page,        \* prepare_data: the keys of the current page still to visit
    token,       \* prepare_data: the paginator's continuation (last key listed)
    truncated,   \* prepare_data: the current page was not the last
    result,      \* the value returned, or the exception raised
    io,          \* the I/O calls of the invocation, in order
    storage0,    \* the bucket when the invocation began
    fs0,         \* the local file system when the invocation began
    seen,        \* the local day directory as the preparation routine found it
    disturbed,   \* another invocation removed the directory after this one reset it
    calls        \* invocations begun

vars == <<s3_bucket, archive, storage, fs_dirs, fs_files, pc, handler, file_limit,
          uploaded, idx, page, token, truncated, result, io, storage0, fs0, seen,
          disturbed, calls>>

config == <<s3_bucket, archive>>
dl_vars == <<file_limit, uploaded, idx>>
pr_vars == <<page, token, truncated, seen>>
fs_vars == <<fs_dirs, fs_files>>

Range(f) == {f[i] : i \in DOMAIN f}
Count(seq, op) == Cardinality({i \in DOMAIN seq : seq[i][1] = op})
Args(seq, op) == SelectSeq(seq, LAMBDA e : e[1] = op)

(* ---------------------------- initial state --------------------------- *)
MarkerKey == S3_PREFIX
NestedKey == S3_PREFIX \o "sub/part.json.gz"
RootedKey == S3_PREFIX \o "/tmp/x.json.gz"
OtherDayKey == "raw/day=20231031/" \o FormatToken(0)
\* the buckets an invocation may find: empty, the two objects of the tests, a
\* bucket with a folder marker, a nested key and another day's object, and one
\* with a key whose name after the prefix starts with "/"
InitBuckets ==
    { {},
      {KeyOf(FormatToken(0)), KeyOf(FormatToken(StepSeconds))},
      {MarkerKey, OtherDayKey, KeyOf(FormatToken(0)), KeyOf(FormatToken(StepSeconds)), NestedKey},
      {RootedKey, KeyOf(FormatToken(0))} }

NoFiles == [f \in {} |-> ""]
StaleFile == local_raw_dir \o "/old.json.gz"
SystemDirs == {"/", "/tmp"}
InitFs ==
    { <<SystemDirs, NoFiles>>,
      <<WithParents(local_raw_dir), NoFiles>>,
      <<WithParents(local_raw_dir), (StaleFile :> "payload")>> }

NoView == [exists |-> FALSE, dirs |-> {}, files |-> {}]

Init ==
    /\ s3_bucket \in {"", BUCKET}
    /\ archive \in SUBSET Range(Filenames)
    /\ \E S \in InitBuckets : storage = [k \in S |-> "payload"]
    /\ \E f \in InitFs : fs_dirs = f[1] /\ fs_files = f[2]
    /\ pc = [p \in Procs |-> "idle"]
    /\ handler = [p \in Procs |-> "none"]
    /\ file_limit = [p \in Procs |-> 0]
    /\ uploaded = [p \in Procs |-> 0]
    /\ idx = [p \in Procs |-> 1]
    /\ page = [p \in Procs |-> <<>>]
    /\ token = [p \in Procs |-> ""]
    /\ truncated = [p \in Procs |-> FALSE]
    /\ result = [p \in Procs |-> ""]
    /\ io = [p \in Procs |-> <<>>]
    /\ storage0 = [p \in Procs |-> storage]
    /\ fs0 = [p \in Procs |-> <<fs_dirs, fs_files>>]
    /\ seen = [p \in Procs |-> NoView]
    /\ disturbed = [p \in Procs |-> FALSE]
    /\ calls = 0

Finished(p) == pc[p] \in {"idle", "returned", "raised"}

\* the per-invocation bookkeeping a new invocation of process p starts from
Begin(p, h) ==
    /\ handler' = [handler EXCEPT ![p] = h]
    /\ io' = [io EXCEPT ![p] = <<>>]
    /\ storage0' = [storage0 EXCEPT ![p] = storage]
    /\ fs0' = [fs0 EXCEPT ![p] = <<fs_dirs, fs_files>>]
    /\ disturbed' = [disturbed EXCEPT ![p] = FALSE]
    /\ seen' = [seen EXCEPT ![p] = NoView]
    /\ page' = [page EXCEPT ![p] = <<>>]
    /\ token' = [token EXCEPT ![p] = ""]
    /\ truncated' = [truncated EXCEPT ![p] = FALSE]
    /\ calls' = calls + 1

\* the check of the bucket left out
BucketNeverMissing(bucket) == FALSE

\* `not s3_bucket`
BucketMissing(bucket) == bucket = ""

(* ---------------------------- download_data --------------------------- *)
\* the early return taken for negative limits only
LimitIsNoneStrict(n) == n < 0

\* the guard of the early return
LimitIsNone(n) == n <= 0

\* the break taken one iteration late
LimitReachedLate(count, n) == count > n

\* the guard of the for loop's break
LimitReached(count, n) == count >= n

StatusString(count) == "OK uploaded=" \o Decimal(count)

\* lines 63-74: the early return, the bucket check, the counter's start
DownloadCall(p, n, budget) ==
    /\ Finished(p) /\ calls < budget
    /\ Begin(p, "download_data")
    /\ file_limit' = [file_limit EXCEPT ![p] = n]
    /\ uploaded' = [uploaded EXCEPT ![p] = 0]
    /\ idx' = [idx EXCEPT ![p] = 1]
    /\ IF LimitIsNone(n)
         THEN /\ pc' = [pc EXCEPT ![p] = "returned"]
              /\ result' = [result EXCEPT ![p] = "OK uploaded=0"]
         ELSE IF BucketMissing(s3_bucket)
         THEN /\ pc' = [pc EXCEPT ![p] = "raised"]
              /\ result' = [result EXCEPT ![p] = MISSING_BUCKET]
         ELSE /\ pc' = [pc EXCEPT ![p] = "d_loop"]
              /\ result' = [result EXCEPT ![p] = ""]
    /\ UNCHANGED <<config, storage, fs_vars>>

\* the probe's answer ignored
HeadStatusAlwaysOk(filename) == 200

\* session.head(url).status_code
HeadStatus(filename) == IF filename \in archive THEN 200 ELSE 404

\* lines 76-85: the next file name, the limit test, the probe
DownloadProbe(p) ==
    /\ pc[p] = "d_loop"
    /\ idx[p] <= Len(Filenames)
    /\ ~LimitReached(uploaded[p], file_limit[p])
    /\ LET filename == Filenames[idx[p]]
       IN \/ /\ io' = [io EXCEPT ![p] = Append(@, <<"head", UrlOf(filename)>>)]
             /\ IF HeadStatus(filename) # 200
                  THEN /\ idx' = [idx EXCEPT ![p] = @ + 1]
                       /\ pc' = pc
                  ELSE /\ idx' = idx
                       /\ pc' = [pc EXCEPT ![p] = "d_get"]
             /\ result' = result
          \/ \* no answer within the timeout: requests raises
             /\ io' = [io EXCEPT ![p] = Append(@, <<"head_failed", UrlOf(filename)>>)]
             /\ pc' = [pc EXCEPT ![p] = "raised"]
             /\ result' = [result EXCEPT ![p] = "ConnectionError"]
             /\ idx' = idx
    /\ UNCHANGED <<config, storage, fs_vars, handler, file_limit, uploaded, pr_vars,
                   storage0, fs0, disturbed, calls>>

\* s3.upload_fileobj(r.raw, s3_bucket, s3_key)
Upload(bucket, key, body) == (key :> body) @@ bucket

\* the exception swallowed and the loop resumed
OnFetchErrorRetry == "d_loop"

\* where an exception of the fetch or of the upload leaves the invocation: nothing
\* catches it
OnFetchError == "raised"

\* lines 87-93: the fetch, the upload, the counter
DownloadFetch(p) ==
    /\ pc[p] = "d_get"
    /\ LET filename == Filenames[idx[p]]
           url == UrlOf(filename)
           s3_key == KeyOf(filename)
       IN \/ /\ io' = [io EXCEPT ![p] = @ \o << <<"get", url>>, <<"put", s3_key>> >>]
             /\ storage' = Upload(storage, s3_key, RemoteBody(url))
             /\ uploaded' = [uploaded EXCEPT ![p] = @ + 1]
             /\ idx' = [idx EXCEPT ![p] = @ + 1]
             /\ pc' = [pc EXCEPT ![p] = "d_loop"]
             /\ result' = result
          \/ /\ io' = [io EXCEPT ![p] = Append(@, <<"get", url>>)]
             /\ pc' = [pc EXCEPT ![p] = OnFetchError]
             /\ result' = [result EXCEPT ![p] = "HTTPError"]
             /\ UNCHANGED <<storage, uploaded, idx>>
          \/ /\ io' = [io EXCEPT ![p] = @ \o << <<"get", url>>, <<"put_failed", s3_key>> >>]
             /\ pc' = [pc EXCEPT ![p] = OnFetchError]
             /\ result' = [result EXCEPT ![p] = "S3UploadFailedError"]
             /\ UNCHANGED <<storage, uploaded, idx>>
    /\ UNCHANGED <<config, fs_vars, handler, file_limit, pr_vars, storage0, fs0,
                   disturbed, calls>>

\* lines 76-78 and 95: the list is exhausted or the limit is reached
DownloadReturn(p) ==
    /\ pc[p] = "d_loop"
    /\ idx[p] > Len(Filenames) \/ LimitReached(uploaded[p], file_limit[p])
    /\ pc' = [pc EXCEPT ![p] = "returned"]
    /\ result' = [result EXCEPT ![p] = StatusString(uploaded[p])]
    /\ UNCHANGED <<config, storage, fs_vars, handler, dl_vars, pr_vars, io, storage0,
                   fs0, disturbed, calls>>

(* ---------------------------- prepare_data ---------------------------- *)
\* lines 101-105: the bucket check
PrepareCall(p, budget) ==
    /\ Finished(p) /\ calls < budget
    /\ Begin(p, "prepare_data")
    /\ IF BucketMissing(s3_bucket)
         THEN /\ pc' = [pc EXCEPT ![p] = "raised"]
              /\ result' = [result EXCEPT ![p] = MISSING_BUCKET]
         ELSE /\ pc' = [pc EXCEPT ![p] = "p_exists"]
              /\ result' = [result EXCEPT ![p] = ""]
    /\ UNCHANGED <<config, storage, fs_vars, dl_vars>>

\* shutil.rmtree(path): the directory and all below it
Rmtree(dirs, path) == {d \in dirs : ~Within(d, path)}
RmtreeFiles(files, path) == [f \in {g \in DOMAIN files : ~Within(g, path)} |-> files[f]]

\* _ensure_empty_dir, line 31: path.exists()
EnsureExists(p) ==
    /\ pc[p] = "p_exists"
    /\ io' = [io EXCEPT ![p] = Append(@, <<"exists", local_raw_dir>>)]
    /\ pc' = [pc EXCEPT ![p] = IF local_raw_dir \in fs_dirs THEN "p_rmtree" ELSE "p_mkdir"]
    /\ UNCHANGED <<config, storage, fs_vars, handler, dl_vars, pr_vars, result,
                   storage0, fs0, disturbed, calls>>

\* _ensure_empty_dir, line 32: shutil.rmtree(path)
EnsureRmtree(p) ==
    /\ pc[p] = "p_rmtree"
    /\ IF local_raw_dir \in fs_dirs
         THEN /\ fs_dirs' = Rmtree(fs_dirs, local_raw_dir)
              /\ fs_files' = RmtreeFiles(fs_files, local_raw_dir)
              /\ io' = [io EXCEPT ![p] = Append(@, <<"rmtree", local_raw_dir>>)]
              /\ pc' = [pc EXCEPT ![p] = "p_mkdir"]
              /\ result' = result
              /\ disturbed' = [q \in Procs |->
                    disturbed[q] \/ (q # p /\ pc[q] \in {"p_list", "p_page", "p_prepare"})]
         ELSE /\ io' = [io EXCEPT ![p] = Append(@, <<"rmtree_failed", local_raw_dir>>)]
              /\ pc' = [pc EXCEPT ![p] = "raised"]
              /\ result' = [result EXCEPT ![p] = "FileNotFoundError"]
              /\ UNCHANGED <<fs_vars, disturbed>>
    /\ UNCHANGED <<config, storage, handler, dl_vars, pr_vars, storage0, fs0, calls>>

\* _ensure_empty_dir, line 33: path.mkdir(parents=True, exist_ok=True)
EnsureMkdir(p) ==
    /\ pc[p] = "p_mkdir"
    /\ fs_dirs' = fs_dirs \cup WithParents(local_raw_dir)
    /\ io' = [io EXCEPT ![p] = Append(@, <<"mkdir", local_raw_dir>>)]
    /\ pc' = [pc EXCEPT ![p] = "p_list"]
    /\ UNCHANGED <<config, storage, fs_files, handler, dl_vars, pr_vars, result,
                   storage0, fs0, disturbed, calls>>

\* the keys list_objects_v2(Prefix=S3_PREFIX) has left to return after `after`
Listing(bucket, after) ==
    SortKeys({k \in DOMAIN bucket :
                StartsWith(k, S3_PREFIX) /\ (after = "" \/ StrLess(after, k))})

\* line 111: the paginator asks for the next page
ListPage(p) ==
    /\ pc[p] = "p_list"
    /\ \/ LET rest == Listing(storage, token[p])
              pg == FirstN(rest, PageSize)
          IN /\ page' = [page EXCEPT ![p] = pg]
             /\ truncated' = [truncated EXCEPT ![p] = Len(rest) > Len(pg)]
             /\ token' = [token EXCEPT ![p] = IF pg = <<>> THEN @ ELSE pg[Len(pg)]]
             /\ io' = [io EXCEPT ![p] = Append(@, <<"list", token[p]>>)]
             /\ pc' = [pc EXCEPT ![p] = IF pg = <<>> THEN "p_prepare" ELSE "p_page"]
             /\ result' = result
       \/ /\ io' = [io EXCEPT ![p] = Append(@, <<"list_failed", token[p]>>)]
          /\ pc' = [pc EXCEPT ![p] = "raised"]
          /\ result' = [result EXCEPT ![p] = "ClientError"]
          /\ UNCHANGED <<page, truncated, token>>
    /\ UNCHANGED <<config, storage, fs_vars, handler, dl_vars, seen, storage0, fs0,
                   disturbed, calls>>

\* the test of line 114 inverted
IsMarkerInverted(key) == ~EndsWith(key, "/")

\* line 114: the keys the loop skips
IsMarker(key) == EndsWith(key, "/")

\* only the first page visited
AfterObjectFirstPage(p) == IF Tail(page[p]) # <<>> THEN "p_page" ELSE "p_prepare"

\* where the loops of lines 111-112 go after the current object
AfterObject(p) ==
    IF Tail(page[p]) # <<>> THEN "p_page" ELSE IF truncated[p] THEN "p_list" ELSE "p_prepare"

\* lines 112-120: one object of the page
VisitObject(p) ==
    /\ pc[p] = "p_page"
    /\ LET key == Head(page[p])
           dest == DestOf(key)
       IN IF IsMarker(key)
            THEN /\ pc' = [pc EXCEPT ![p] = AfterObject(p)]
                 /\ page' = [page EXCEPT ![p] = Tail(@)]
                 /\ UNCHANGED <<fs_vars, io, result>>
            ELSE /\ fs_dirs' = fs_dirs \cup WithParents(Parent(dest))
                 /\ \/ /\ fs_files' = (dest :> storage[key]) @@ fs_files
                       /\ io' = [io EXCEPT ![p] =
                                   @ \o << <<"mkdir", Parent(dest)>>, <<"download", key>> >>]
                       /\ pc' = [pc EXCEPT ![p] = AfterObject(p)]
                       /\ page' = [page EXCEPT ![p] = Tail(@)]
                       /\ result' = result
                    \/ /\ io' = [io EXCEPT ![p] =
                                   @ \o << <<"mkdir", Parent(dest)>>, <<"download_failed", key>> >>]
                       /\ pc' = [pc EXCEPT ![p] = "raised"]
                       /\ result' = [result EXCEPT ![p] = "ClientError"]
                       /\ UNCHANGED <<fs_files, page>>
    /\ UNCHANGED <<config, storage, handler, dl_vars, token, truncated, seen, storage0,
                   fs0, disturbed, calls>>

\* what s1_prepare_data may return
S1Results == {"OK", "No files"}

\* the local day directory as a reader finds it
DayDirView ==
    [exists |-> local_raw_dir \in fs_dirs,
     dirs |-> {d \in fs_dirs : Within(d, local_raw_dir) /\ d # local_raw_dir},
     files |-> {f \in DOMAIN fs_files : Within(f, local_raw_dir)}]

\* what prepare_data returns of the routine's result r
PrepareResult(r) == r

\* line 122: return s1_prepare_data()
S1Prepare(p) ==
    /\ pc[p] = "p_prepare"
    /\ \E r \in S1Results :
         /\ io' = [io EXCEPT ![p] = Append(@, <<"s1_prepare_data", r>>)]
         /\ result' = [result EXCEPT ![p] = PrepareResult(r)]
    /\ seen' = [seen EXCEPT ![p] = DayDirView]
    /\ pc' = [pc EXCEPT ![p] = "returned"]
    /\ UNCHANGED <<config, storage, fs_vars, handler, dl_vars, page, token, truncated,
                   storage0, fs0, disturbed, calls>>

(* --------------------------- specifications --------------------------- *)
Limits == (0 - 1)..MaxLimit

Step(p) ==
    \/ DownloadProbe(p)
    \/ DownloadFetch(p)
    \/ DownloadReturn(p)
    \/ EnsureExists(p)
    \/ EnsureRmtree(p)
    \/ EnsureMkdir(p)
    \/ ListPage(p)
    \/ VisitObject(p)
    \/ S1Prepare(p)

\* one client: the handlers run one after the other
Next ==
    \/ \E n \in Limits : DownloadCall(1, n, MaxCalls)
    \/ PrepareCall(1, MaxCalls)
    \/ Step(1)

Spec == Init /\ [][Next]_vars

\* two clients call download_data once each, their steps interleaved
NextConcDownload ==
    \E p \in Procs :
        \/ \E n \in Limits : DownloadCall(p, n, Cardinality(Procs))
        \/ DownloadProbe(p)
        \/ DownloadFetch(p)
        \/ DownloadReturn(p)

InitConcDownload ==
    /\ Init
    /\ s3_bucket = BUCKET
    /\ fs_dirs = SystemDirs
    /\ DOMAIN storage \in {{}, {KeyOf(FormatToken(0)), KeyOf(FormatToken(StepSeconds))}}

SpecConcDownload == InitConcDownload /\ [][NextConcDownload]_vars

\* two clients call prepare_data once each, their steps interleaved
NextConcPrepare ==
    \E p \in Procs :
        \/ PrepareCall(p, Cardinality(Procs))
        \/ EnsureExists(p)
        \/ EnsureRmtree(p)
        \/ EnsureMkdir(p)
        \/ ListPage(p)
        \/ VisitObject(p)
        \/ S1Prepare(p)

InitConcPrepare ==
    /\ Init
    /\ s3_bucket = BUCKET
    /\ archive = {}

SpecConcPrepare == InitConcPrepare /\ [][NextConcPrepare]_vars

(* ------------------------------- claims ------------------------------- *)
Min(a, b) == IF a < b THEN a ELSE b
Max(a, b) == IF a > b THEN a ELSE b
Last(seq) == seq[Len(seq)]

\* no bucket is configured
NoBucket == s3_bucket = ""

UnderPrefix(bucket) == {k \in DOMAIN bucket : StartsWith(k, S3_PREFIX)}
IsDownload(p) == handler[p] = "download_data"
IsPrepare(p) == handler[p] = "prepare_data"
\* the events of one kind, as the sequence of their arguments
ArgsOf(p, op) == [i \in 1..Len(Args(io[p], op)) |-> Args(io[p], op)[i][2]]
PutsBefore(p, i) == Cardinality({j \in 1..(i - 1) : io[p][j][1] = "put"})

\* every probe of the day answers 200
AllProbesSucceed == archive = Range(Filenames)

\* C1 as stated: for every file_limit = n > 0, with a bucket configured, nothing
\* stored under the prefix before and every probe succeeding, a download_data
\* invocation that returns leaves exactly n objects under the prefix and returns
\* "OK uploaded=n".
C1_AsStated ==
    \A p \in Procs :
        (/\ IsDownload(p) /\ pc[p] = "returned" /\ file_limit[p] > 0
         /\ ~NoBucket
         /\ UnderPrefix(storage0[p]) = {} /\ AllProbesSucceed)
        => /\ Cardinality(UnderPrefix(storage)) = file_limit[p]
           /\ result[p] = "OK uploaded=" \o Decimal(file_limit[p])

\* C1 amended: under the same conditions the invocation leaves exactly
\* min(n, number of generated file names) objects under the prefix, the objects of
\* the first min(n, ...) file names, and returns "OK uploaded=" with that number.
C1_UploadsMinOfLimitAndDay ==
    \A p \in Procs :
        (/\ IsDownload(p) /\ pc[p] = "returned" /\ file_limit[p] > 0
         /\ ~NoBucket
         /\ UnderPrefix(storage0[p]) = {} /\ AllProbesSucceed)
        => LET m == Min(file_limit[p], Len(Filenames))
           IN /\ Cardinality(UnderPrefix(storage)) = m
              /\ UnderPrefix(storage) = {KeyOf(Filenames[i]) : i \in 1..m}
              /\ result[p] = "OK uploaded=" \o Decimal(m)

\* C1 witness: a returned invocation with limit 2, every probe succeeding, an
\* initially empty prefix, and two objects stored.
C1_Witness ==
    /\ IsDownload(1) /\ pc[1] = "returned" /\ file_limit[1] = 2
    /\ UnderPrefix(storage0[1]) = {} /\ AllProbesSucceed
    /\ Cardinality(UnderPrefix(storage)) = 2
    /\ result[1] = "OK uploaded=2"

\* the archive misses exactly the first k file names of the day
FirstMissing(k) == archive = {Filenames[i] : i \in (k + 1)..Len(Filenames)}

C3_NoLimitNoIO ==
    \A p \in Procs :
        (IsDownload(p) /\ file_limit[p] <= 0)
        => /\ pc[p] = "returned"
           /\ result[p] = StatusString(0)
           /\ io[p] = <<>>
           /\ storage = storage0[p]
           /\ <<fs_dirs, fs_files>> = fs0[p]

\* C3 witness: an invocation with limit 0 against a bucket that holds objects.
C3_Witness ==
    /\ IsDownload(1) /\ file_limit[1] = 0 /\ pc[1] = "returned"
    /\ ~NoBucket /\ UnderPrefix(storage) # {}
    /\ AllProbesSucceed

NoEffect(p) ==
    /\ io[p] = <<>>
    /\ storage = storage0[p]
    /\ <<fs_dirs, fs_files>> = fs0[p]

\* C4 as stated: with no bucket configured every invocation of download_data, for
\* any file_limit, and every invocation of prepare_data ends in the configuration
\* error, having performed no I/O.
C4_AsStated ==
    \A p \in Procs :
        (NoBucket /\ handler[p] # "none")
        => /\ pc[p] = "raised"
           /\ result[p] = MISSING_BUCKET
           /\ NoEffect(p)

\* C4 amended: with no bucket configured every invocation of download_data with
\* file_limit > 0 and every invocation of prepare_data ends in the configuration
\* error, and download_data with file_limit <= 0 returns "OK uploaded=0"; none of
\* them performs any I/O.
C4_ConfigErrorBeforeIO ==
    \A p \in Procs :
        (NoBucket /\ handler[p] # "none")
        => /\ NoEffect(p)
           /\ IF IsDownload(p) /\ file_limit[p] <= 0
                THEN pc[p] = "returned" /\ result[p] = "OK uploaded=0"
                ELSE pc[p] = "raised" /\ result[p] = MISSING_BUCKET

\* C4 witness: prepare_data failed for the missing bucket while the local day
\* directory holds a file and the bucket holds objects.
C4_Witness ==
    /\ NoBucket /\ IsPrepare(1) /\ pc[1] = "raised"
    /\ StaleFile \in DOMAIN fs_files
    /\ UnderPrefix(storage) # {}

\* the objects prepare_data has to fetch: the listed keys that are no folder marker
ListedObjects(bucket) == SelectSeq(Listing(bucket, ""), LAMBDA k : ~EndsWith(k, "/"))
\* the name of a file of the local day directory, relative to it
RelName(f) == SubSeq(f, Len(local_raw_dir) + 2, Len(f))
DayDirFiles == {RelName(f) : f \in DayDirView.files}

\* C5: after a prepare_data invocation that ran to completion with a bucket
\* configured, whatever the local day directory held before, the set of files in
\* that directory is exactly the set of listed keys that do not end in "/", each
\* with the prefix stripped.
C5_DirEqualsListing ==
    \A p \in Procs :
        (IsPrepare(p) /\ pc[p] = "returned" /\ ~NoBucket)
        => DayDirFiles = {StripPrefix(k) : k \in Range(ListedObjects(storage))}

\* C5 on the buckets whose names after the prefix are relative: the directory
\* equals the listing, and nothing of an earlier run survives.
C5_HoldsForRelativeNames ==
    \A p \in Procs :
        (/\ IsPrepare(p) /\ pc[p] = "returned" /\ ~NoBucket
         /\ \A k \in Range(ListedObjects(storage)) : ~StartsWith(StripPrefix(k), "/"))
        => /\ DayDirFiles = {StripPrefix(k) : k \in Range(ListedObjects(storage))}
           /\ \A k \in Range(ListedObjects(storage)) : fs_files[DestOf(k)] = storage[k]

C5_RelativeWitness ==
    /\ IsPrepare(1) /\ pc[1] = "returned"
    /\ StaleFile \in DOMAIN fs0[1][2]
    /\ DayDirFiles = {FormatToken(0), FormatToken(StepSeconds), "sub/part.json.gz"}

NoFailure(p) ==
    \A i \in DOMAIN io[p] :
        io[p][i][1] \notin {"rmtree_failed", "list_failed", "download_failed"}

\* position of the first event of a kind in the log, 0 when there is none
FirstAt(p, op) ==
    IF Count(io[p], op) = 0 THEN 0
    ELSE CHOOSE i \in DOMAIN io[p] :
            io[p][i][1] = op /\ \A j \in 1..(i - 1) : io[p][j][1] # op

\* C6: a prepare_data invocation with a bucket configured and no storage or file
\* system failure calls the preparation routine exactly once, after the directory
\* reset and after the downloads of every listing page, and returns the routine's
\* result unchanged; when the prefix lists no object it downloads nothing, leaves
\* the local day directory empty, and still calls the routine.
C6_RoutineOnceAfterAllDownloads ==
    \A p \in Procs :
        (IsPrepare(p) /\ ~NoBucket /\ NoFailure(p))
        => /\ Count(io[p], "s1_prepare_data") <= 1
           /\ pc[p] = "returned" <=> Count(io[p], "s1_prepare_data") = 1
           /\ pc[p] # "raised"
           /\ pc[p] = "returned" =>
                /\ Last(io[p])[1] = "s1_prepare_data"
                /\ result[p] = Last(io[p])[2]
                /\ io[p][1] = <<"exists", local_raw_dir>>
                /\ FirstAt(p, "mkdir") \in {2, 3}
                /\ io[p][FirstAt(p, "mkdir")] = <<"mkdir", local_raw_dir>>
                /\ FirstAt(p, "mkdir") = 3 => io[p][2] = <<"rmtree", local_raw_dir>>
                /\ FirstAt(p, "list") = FirstAt(p, "mkdir") + 1
                /\ ArgsOf(p, "download") = ListedObjects(storage)
                /\ seen[p] = DayDirView
                /\ Listing(storage, "") = <<>> =>
                     /\ Count(io[p], "download") = 0
                     /\ seen[p] = [exists |-> TRUE, dirs |-> {}, files |-> {}]

\* C6 witness: a completed invocation that listed more than one page and
\* downloaded three objects before it called the routine.
C6_Witness ==
    /\ IsPrepare(1) /\ pc[1] = "returned"
    /\ Count(io[1], "list") >= 2
    /\ Count(io[1], "download") = 3
    /\ result[1] = "No files"

\* C6, the empty prefix: nothing listed, a stale file before, the routine called.
C6_EmptyWitness ==
    /\ IsPrepare(1) /\ pc[1] = "returned"
    /\ Listing(storage, "") = <<>>
    /\ StaleFile \in DOMAIN fs0[1][2]
    /\ seen[1] = [exists |-> TRUE, dirs |-> {}, files |-> {}]

\* the time of day a url's file name stands for
DigitValue(c) == (CHOOSE i \in 1..Len(DigitChars) : CharAt(DigitChars, i) = c) - 1
TwoDigitValue(s, i) == 10 * DigitValue(CharAt(s, i)) + DigitValue(CharAt(s, i + 1))
TimeOfUrl(url) ==
    LET name == SubSeq(url, Len(BaseUrl) + 1, Len(url))
    IN TwoDigitValue(name, 1) * SecondsPerHour
         + TwoDigitValue(name, 3) * SecondsPerMinute + TwoDigitValue(name, 5)

\* the invocation got as far as the loop of download_data
InLoop(p) == IsDownload(p) /\ file_limit[p] > 0 /\ ~NoBucket

FailedFetchAt(p, i) ==
    \/ io[p][i][1] = "put_failed"
    \/ /\ io[p][i][1] = "get"
       /\ i = Len(io[p]) \/ io[p][i + 1][1] \notin {"put", "put_failed"}

\* the url whose fetch failed at position i
FailedUrl(p, i) == IF io[p][i][1] = "get" THEN io[p][i][2] ELSE io[p][i - 1][2]

\* C8: when the fetch or the storage write of a file name fails after its probe
\* succeeded, the invocation ends in a failure and returns no status string: the
\* file name is not fetched again, nothing is probed or uploaded afterwards, no
\* count is reported, and the objects uploaded before stay in the bucket.
C8_FetchFailureIsFatal ==
    \A p \in Procs : \A i \in DOMAIN io[p] :
        (IsDownload(p) /\ FailedFetchAt(p, i))
        => /\ pc[p] = "raised"
           /\ result[p] \in {"HTTPError", "S3UploadFailedError"}
           /\ \A n \in 0..MaxLimit : result[p] # StatusString(n)
           /\ i = Len(io[p]) \/ (i + 1 = Len(io[p]) /\ io[p][i + 1][1] = "put_failed")
           /\ Cardinality({j \in DOMAIN io[p] : io[p][j] = <<"get", FailedUrl(p, i)>>}) = 1
           /\ Cardinality({j \in DOMAIN io[p] : io[p][j] = <<"head", FailedUrl(p, i)>>}) = 1
           /\ Last(ArgsOf(p, "head")) = FailedUrl(p, i)
           /\ SubSeq(FailedUrl(p, i), Len(BaseUrl) + 1, Len(FailedUrl(p, i))) \in archive
           /\ \A j \in 1..Len(ArgsOf(p, "put")) :
                 LET k == ArgsOf(p, "put")[j]
                 IN k \in DOMAIN storage
                    /\ storage[k] = RemoteBody(BaseUrl \o StripPrefix(k))

\* C8 witness: the fetch of the second file name failed after the first was
\* uploaded; the first object is in the bucket.
C8_Witness ==
    /\ IsDownload(1) /\ pc[1] = "raised" /\ result[1] = "HTTPError"
    /\ uploaded[1] = 1
    /\ Last(io[1])[1] = "get"
    /\ KeyOf(Filenames[1]) \in DOMAIN storage
    /\ KeyOf(Filenames[2]) \notin DOMAIN storage

\* the file names of the day the archive holds, in order
Available == SelectSeq(Filenames, LAMBDA f : f \in archive)

\* the bucket one download_data invocation with limit n leaves, begun on `bucket`
SingleRun(bucket, n) ==
    LET new == {KeyOf(f) : f \in Range(FirstN(Available, Max(n, 0)))}
    IN [k \in DOMAIN bucket \cup new |->
           IF k \in new THEN RemoteBody(BaseUrl \o StripPrefix(k)) ELSE bucket[k]]

\* one invocation alone leaves SingleRun of its limit
SingleRunIsTheSequentialResult ==
    \A p \in Procs :
        (IsDownload(p) /\ pc[p] = "returned") => storage = SingleRun(storage0[p], file_limit[p])

\* C9: when two concurrent download_data invocations with limits n1 and n2, on the
\* same bucket and archive, have both returned, the bucket is the one a single
\* invocation with limit max(n1, n2) leaves, whatever the interleaving: each key
\* holds the body of its remote resource, and each invocation reports the number
\* of its own uploads.
C9_ConcurrentDownloadsAgree ==
    (\A p \in Procs : IsDownload(p) /\ pc[p] = "returned")
    => \A p \in Procs :
          /\ storage = SingleRun(storage0[p], Max(file_limit[1], file_limit[2]))
          /\ result[p] = "OK uploaded=" \o Decimal(Count(io[p], "put"))
          /\ Count(io[p], "put") = Min(Max(file_limit[p], 0), Len(Available))

\* C9 witness: limits 1 and 2, both invocations began on the empty bucket, both
\* returned, and both wrote the object of the first file name.
C9_Witness ==
    /\ \A p \in Procs : IsDownload(p) /\ pc[p] = "returned"
    /\ file_limit[1] = 1 /\ file_limit[2] = 2
    /\ AllProbesSucceed
    /\ ArgsOf(1, "put") = <<KeyOf(Filenames[1])>>
    /\ ArgsOf(2, "put") = <<KeyOf(Filenames[1]), KeyOf(Filenames[2])>>
    /\ storage0[1] = NoFiles /\ storage0[2] = NoFiles

\* the routine of invocation p found the directory missing, or without the file of
\* a listed object that belongs into it
LacksListedFile(p) ==
    \/ ~seen[p].exists
    \/ \E k \in Range(ListedObjects(storage)) :
          Within(DestOf(k), local_raw_dir) /\ DestOf(k) \notin seen[p].files

\* C10: with two concurrent prepare_data invocations an invocation can call the
\* preparation routine while the directory is missing or lacks the file of a
\* listed object (the witness), and whenever that happens the other invocation
\* removed the directory after this one had reset it.
C10_OnlyTheOtherResetLosesFiles ==
    \A p \in Procs :
        (IsPrepare(p) /\ pc[p] = "returned" /\ LacksListedFile(p)) => disturbed[p]

\* C10 witness: both invocations ran, nothing failed, invocation 1 downloaded every
\* listed object, and yet it called the routine on a directory that lacks the file
\* of a listed object.
C10_Witness ==
    /\ \A p \in Procs : IsPrepare(p) /\ pc[p] = "returned"
    /\ NoFailure(1) /\ NoFailure(2)
    /\ ArgsOf(1, "download") = ListedObjects(storage)
    /\ Len(ListedObjects(storage)) >= 2
    /\ LacksListedFile(1)
    /\ seen[1].exists

\* C10, the other case: the routine was called while the directory did not exist.
C10_MissingDirWitness ==
    /\ \A p \in Procs : IsPrepare(p) /\ pc[p] = "returned"
    /\ ~seen[1].exists

\* with one client the routine always finds every listed file that belongs into
\* the directory
SequentialPrepareLacksNothing ==
    \A p \in Procs : (IsPrepare(p) /\ pc[p] = "returned") => ~LacksListedFile(p)

====
